---- MODULE Spec2Model ----
(***************************************************************************)
(* ChaCha20 (src/src/chacha/chacha20.rs) and Poly1305                      *)
(* (src/src/poly/poly1305.rs) of armadillo as state machines.              *)
(*                                                                         *)
(* TLC's integers are 32-bit signed, so the Rust integers are kept at      *)
(* their width by representation:                                          *)
(*   u8       a number 0..255                                              *)
(*   u32      two 16-bit limbs  << low, high >>                            *)
(*   u128     eight 16-bit limbs, least significant first                  *)
(*   BigUint  its base-256 digits, least significant first, the most       *)
(*            significant digit non-zero (zero is << >>)                   *)
(*   usize    a number (every length of the model is far below 2^31)       *)
(***************************************************************************)
EXTENDS Integers, Sequences, FiniteSets, TLC

VARIABLES
    overflow_checks,  \* build profile: TRUE = debug (overflow panics), FALSE = release (wraps)
    start,            \* start[i]: the counter of instance i in the initial state
    cipher,           \* cipher[i]: the ChaCha20 struct of instance i (key, nonce, counter)
    calls,            \* calls[i]: the encrypt calls made on instance i, oldest first
    panicked,         \* TRUE once a call has panicked: the thread has unwound
    blockA,           \* state array of a ChaCha20Block
    blockB,           \* state array of a second ChaCha20Block
    qr_last,          \* the last quarter_round applied to both blocks, with their states before
    clamp_in,         \* argument of poly1305_r_clamp
    clamp_out,        \* its result, << >> before the call
    mac               \* the activation record of poly1305_mac

vars == << overflow_checks, start, cipher, calls, panicked, blockA, blockB, qr_last,
           clamp_in, clamp_out, mac >>

chacha_vars == << overflow_checks, start, cipher, calls, panicked >>
qr_vars == << blockA, blockB, qr_last >>
clamp_vars == << clamp_in, clamp_out >>
mac_vars == << mac >>

None == "none"

KEY_LENGTH == 32
NONCE_LENGTH == 12
BLOCK_LENGTH == 64

(***************************************************************************)
(* Machine arithmetic                                                      *)
(***************************************************************************)
Limb == 2^16

Min(a, b) == IF a <= b THEN a ELSE b

\* bit k (0 = least significant) of the number x
Bit(x, k) == (x \div 2^k) % 2

RECURSIVE BitXor(_, _)
BitXor(a, b) ==
    IF a = 0 THEN b
    ELSE IF b = 0 THEN a
    ELSE ((a + b) % 2) + 2 * BitXor(a \div 2, b \div 2)

RECURSIVE BitAnd(_, _)
BitAnd(a, b) ==
    IF a = 0 \/ b = 0 THEN 0
    ELSE ((a % 2) * (b % 2)) + 2 * BitAnd(a \div 2, b \div 2)

\* ^ and & on 4-bit values, tabulated; wider values are cut into 4-bit pieces
XorNibble == [a \in 0..15 |-> [b \in 0..15 |-> BitXor(a, b)]]
AndNibble == [a \in 0..15 |-> [b \in 0..15 |-> BitAnd(a, b)]]

\* u8 ^ u8
Xor8(a, b) == 16 * XorNibble[a \div 16][b \div 16] + XorNibble[a % 16][b % 16]
\* u8 & u8
And8(a, b) == 16 * AndNibble[a \div 16][b \div 16] + AndNibble[a % 16][b % 16]
Xor16(a, b) == 256 * Xor8(a \div 256, b \div 256) + Xor8(a % 256, b % 256)
And16(a, b) == 256 * And8(a \div 256, b \div 256) + And8(a % 256, b % 256)

\* the u32 with the 16-bit halves hi and lo
U32(hi, lo) == << lo, hi >>

\* `n as u32` for a usize n of the model
AsU32(n) == << n % Limb, (n \div Limb) % Limb >>

\* the value of a u32 below 2^31 as a number
U32ToNat(w) == w[1] + Limb * w[2]

U32_MAX == U32(Limb - 1, Limb - 1)

\* u32::from_le_bytes
u32_from_le_bytes(b) == << b[1] + 256 * b[2], b[3] + 256 * b[4] >>

\* u32::to_le_bytes
u32_to_le_bytes(w) == << w[1] % 256, w[1] \div 256, w[2] % 256, w[2] \div 256 >>

\* u32::wrapping_add
wrapping_add(a, b) ==
    LET lo == a[1] + b[1]
        hi == a[2] + b[2] + (lo \div Limb)
    IN  << lo % Limb, hi % Limb >>

\* whether a + b leaves the range of u32 (the carry out of the high limb)
add_overflows(a, b) ==
    LET lo == a[1] + b[1]
    IN  a[2] + b[2] + (lo \div Limb) >= Limb

\* u32 ^ u32
u32_xor(a, b) == << Xor16(a[1], b[1]), Xor16(a[2], b[2]) >>

\* u32::rotate_left
rotate_left(a, n) ==
    LET s == n % 16
        v == IF (n % 32) >= 16 THEN << a[2], a[1] >> ELSE a
    IN  IF s = 0 THEN v
        ELSE << ((v[1] * 2^s) % Limb) + (v[2] \div 2^(16 - s)),
                ((v[2] * 2^s) % Limb) + (v[1] \div 2^(16 - s)) >>

(***************************************************************************)
(* ChaCha20Block: the state array is a[0..15] in the source and the        *)
(* sequence state[1..16] here, word i at state[i + 1].                     *)
(***************************************************************************)
ChaCha20Block_new(key, nonce, counter) ==
    << U32(\H6170, \H7865), U32(\H3320, \H646e),
       U32(\H7962, \H2d32), U32(\H6b20, \H6574) >>
    \o [i \in 1..8 |-> u32_from_le_bytes(SubSeq(key, 4 * i - 3, 4 * i))]
    \o << counter >>
    \o [i \in 1..3 |-> u32_from_le_bytes(SubSeq(nonce, 4 * i - 3, 4 * i))]

\* a quarter round that stores d one word too far
quarter_round_stray(state, x, y, z, w) ==
    LET a0 == state[x + 1]
        b0 == state[y + 1]
        c0 == state[z + 1]
        d0 == state[w + 1]
        a1 == wrapping_add(a0, b0)
        d1 == rotate_left(u32_xor(d0, a1), 16)
        c1 == wrapping_add(c0, d1)
        b1 == rotate_left(u32_xor(b0, c1), 12)
        a2 == wrapping_add(a1, b1)
        d2 == rotate_left(u32_xor(d1, a2), 8)
        c2 == wrapping_add(c1, d2)
        b2 == rotate_left(u32_xor(b1, c2), 7)
    IN  [[[[state EXCEPT ![x + 1] = a2]
                  EXCEPT ![y + 1] = b2]
                  EXCEPT ![z + 1] = c2]
                  EXCEPT ![((w + 1) % 16) + 1] = d2]

quarter_round(state, x, y, z, w) ==
    LET a0 == state[x + 1]
        b0 == state[y + 1]
        c0 == state[z + 1]
        d0 == state[w + 1]
        \* 1. a += b; d ^= a; d <<= 16;
        a1 == wrapping_add(a0, b0)
        d1 == rotate_left(u32_xor(d0, a1), 16)
        \* 2. c += d; b ^= c; b <<= 12;
        c1 == wrapping_add(c0, d1)
        b1 == rotate_left(u32_xor(b0, c1), 12)
        \* 3. a += b; d ^= a; d <<= 8;
        a2 == wrapping_add(a1, b1)
        d2 == rotate_left(u32_xor(d1, a2), 8)
        \* 4. c += d; b ^= c; b <<= 7;
        c2 == wrapping_add(c1, d2)
        b2 == rotate_left(u32_xor(b1, c2), 7)
    IN  [[[[state EXCEPT ![x + 1] = a2]
                  EXCEPT ![y + 1] = b2]
                  EXCEPT ![z + 1] = c2]
                  EXCEPT ![w + 1] = d2]

\* the quarter rounds of one pass of the loop of block(), in order:
\* four column rounds, then four diagonal rounds
QuarterRounds ==
    << <<0, 4, 8, 12>>, <<1, 5, 9, 13>>, <<2, 6, 10, 14>>, <<3, 7, 11, 15>>,
       <<0, 5, 10, 15>>, <<1, 6, 11, 12>>, <<2, 7, 8, 13>>, <<3, 4, 9, 14>> >>

\* one pass of the loop body of block(), from its k-th quarter round on
RECURSIVE double_round(_, _)
double_round(state, k) ==
    IF k > Len(QuarterRounds) THEN state
    ELSE double_round(quarter_round(state, QuarterRounds[k][1], QuarterRounds[k][2],
                                    QuarterRounds[k][3], QuarterRounds[k][4]),
                      k + 1)

\* `for _ in 0..n`: n passes. TLC evaluates an argument when it is first
\* needed; the test on t has pass k evaluated before pass k + 1 starts.
RECURSIVE rounds(_, _)
rounds(state, n) ==
    IF n = 0 THEN state
    ELSE LET t == double_round(state, 1)
         IN  IF Len(t) = 16 THEN rounds(t, n - 1) ELSE t

block(state) ==
    LET old_state == state
        working == rounds(state, 10)
    IN  [i \in 1..16 |-> wrapping_add(working[i], old_state[i])]

\* flat_map(|x| x.to_le_bytes()) over the words from word i on
RECURSIVE flat_le_bytes(_, _)
flat_le_bytes(state, i) ==
    IF i > Len(state) THEN << >>
    ELSE u32_to_le_bytes(state[i]) \o flat_le_bytes(state, i + 1)

get_keystream(state) == flat_le_bytes(block(state), 1)

(***************************************************************************)
(* ChaCha20: the stream cipher                                             *)
(***************************************************************************)
ChaCha20_new(key, nonce) == [key |-> key, nonce |-> nonce, counter |-> AsU32(1)]

\* a block count that leaves out the final, partial chunk
encrypt_blocks_floor(len) == len \div BLOCK_LENGTH

\* let blocks = (data.len() + BLOCK_LENGTH - 1) / BLOCK_LENGTH;
encrypt_blocks(len) == (len + BLOCK_LENGTH - 1) \div BLOCK_LENGTH

\* self.counter + i as u32, as the release build computes it
block_counter(counter, i) == wrapping_add(counter, AsU32(i))

\* a counter that moves on by one more block than the call consumed
next_counter_extra(counter, blocks) == wrapping_add(counter, AsU32(blocks + 1))

\* self.counter += blocks as u32, as the release build computes it
next_counter(counter, blocks) == wrapping_add(counter, AsU32(blocks))

\* The closure of flat_map for block i: the counter it hands to
\* ChaCha20Block::new and the 64 bytes block.get_keystream() returns.
encrypt_block(self, i) ==
    [counter |-> block_counter(self.counter, i),
     keystream |-> get_keystream(ChaCha20Block_new(self.key, self.nonce,
                                                   block_counter(self.counter, i)))]

\* .collect::<Vec<u8>>() of the blocks' bytes, from block i on
RECURSIVE collect(_, _)
collect(generated, i) ==
    IF i > Len(generated) THEN << >>
    ELSE generated[i].keystream \o collect(generated, i + 1)

\* a combination of keystream and data that is not its own inverse
add_u8(x, y) == (x + y) % 256

\* |(x, y)| x ^ y
xor_u8(x, y) == Xor8(x, y)

\* keystream.iter().zip(data).map(...).collect(): zip ends with the shorter
zip_xor(keystream, data) ==
    [j \in 1..Min(Len(keystream), Len(data)) |-> xor_u8(keystream[j], data[j])]

\* Whether the additions of the call leave the range of u32: counter + i for
\* the last block i = blocks - 1 (the largest), or counter += blocks.
encrypt_overflows(self, blocks) ==
    \/ blocks > 0 /\ add_overflows(self.counter, AsU32(blocks - 1))
    \/ add_overflows(self.counter, AsU32(blocks))

(* ChaCha20::encrypt(&mut self, data). With overflow checks (the debug
   profile) an overflowing + or += panics: the call does not return and
   self.counter is not stored. Without them (the release profile) both wrap.
   The record holds the struct after the call, the value returned, and the
   call's locals: what each pass of the closure generated and the keystream. *)
ChaCha20_encrypt(self, data, checks) ==
    LET blocks == encrypt_blocks(Len(data))
    IN  IF checks /\ encrypt_overflows(self, blocks)
        THEN [outcome |-> "panic", self |-> self,
              generated |-> << >>, keystream |-> << >>, result |-> << >>]
        ELSE \* (0..blocks): i runs from 0, generated[i + 1] is block i
             LET generated == [i \in 1..blocks |-> encrypt_block(self, i - 1)]
                 keystream == collect(generated, 1)
             IN  [outcome |-> "ok",
                  self |-> [self EXCEPT !.counter = next_counter(self.counter, blocks)],
                  generated |-> generated,
                  keystream |-> keystream,
                  result |-> zip_xor(keystream, data)]

(***************************************************************************)
(* Inputs of the stream cipher                                             *)
(***************************************************************************)
\* TEST_KEY of tests/chacha.rs: 00 01 02 .. 1f
TEST_KEY == [i \in 1..KEY_LENGTH |-> i - 1]

\* the nonce of helloworld_encrypt_test: 00 00 00 00 00 00 00 4a 00 00 00 00
HELLO_NONCE == [i \in 1..NONCE_LENGTH |-> IF i = 8 THEN \H4a ELSE 0]

\* TEST_NONCE of tests/chacha.rs: 00 00 00 09 00 00 00 4a 00 00 00 00
TEST_NONCE == [i \in 1..NONCE_LENGTH |-> IF i = 4 THEN 9 ELSE IF i = 8 THEN \H4a ELSE 0]

\* the first 65 bytes of the plaintext of helloworld_encrypt_test
Plain ==
    << 76, 97, 100, 105, 101, 115, 32, 97, 110, 100, 32, 71, 101, 110, 116, 108,
       101, 109, 101, 110, 32, 111, 102, 32, 116, 104, 101, 32, 99, 108, 97, 115,
       115, 32, 111, 102, 32, 39, 57, 57, 58, 32, 73, 102, 32, 73, 32, 99, 111,
       117, 108, 100, 32, 111, 102, 102, 101, 114, 32, 121, 111, 117, 32, 111, 110 >>

\* the first 65 bytes of the ciphertext helloworld_encrypt_test expects
HelloExpected ==
    << 110, 46, 53, 154, 37, 104, 249, 128, 65, 186, 7, 40, 221, 13, 105, 129,
       233, 126, 122, 236, 29, 67, 96, 194, 10, 39, 175, 204, 253, 159, 174, 11,
       249, 27, 101, 197, 82, 71, 51, 171, 143, 89, 61, 171, 205, 98, 179, 87,
       22, 57, 214, 36, 230, 81, 82, 171, 143, 83, 12, 53, 159, 8, 97, 216, 7 >>

\* Plain[from..to) in the source's zero-based, half-open ranges
Slice(from, to) == SubSeq(Plain, from + 1, to)

\* The data handed to encrypt: the prefixes of Plain of 0, 1, 63, 64 and 65
\* bytes, and what is left of the 65 bytes after a prefix of 1, 63 or 64.
PieceRanges ==
    { <<0, 0>>, <<0, 1>>, <<0, 63>>, <<0, 64>>, <<0, 65>>,
      <<1, 65>>, <<63, 65>>, <<64, 65>> }

Pieces == { Slice(p[1], p[2]) : p \in PieceRanges }

KeyNonces == { <<TEST_KEY, HELLO_NONCE>> }

Ciphers == {1, 2}

\* instance 1 takes up to MaxCalls calls, instance 2 one call
MaxCalls == 2
CallBound(i) == IF i = 1 THEN MaxCalls ELSE 1

\* what the other instance has returned so far: a caller may pass it on
Returned(i) ==
    UNION { { calls[j][k].result : k \in 1..Len(calls[j]) } : j \in Ciphers \ {i} }

(***************************************************************************)
(* Actions                                                                 *)
(***************************************************************************)
\* cipher[i].encrypt(data); r is what the call did
Encrypt(i, data) ==
    /\ ~panicked
    /\ Len(calls[i]) < CallBound(i)
    /\ \E r \in { ChaCha20_encrypt(cipher[i], data, overflow_checks) } :
           /\ cipher' = [cipher EXCEPT ![i] = r.self]
           /\ calls' = [calls EXCEPT ![i] =
                  Append(@, [data |-> data, counter |-> cipher[i].counter,
                             generated |-> r.generated,
                             keystream |-> r.keystream, result |-> r.result,
                             outcome |-> r.outcome])]
           /\ panicked' = (r.outcome = "panic")
    /\ UNCHANGED << overflow_checks, start, qr_vars, clamp_vars, mac_vars >>

IdleChaCha ==
    /\ overflow_checks = TRUE
    /\ start = [i \in Ciphers |-> None]
    /\ cipher = [i \in Ciphers |-> None]
    /\ calls = [i \in Ciphers |-> << >>]
    /\ panicked = FALSE

IdleQR ==
    /\ blockA = << >>
    /\ blockB = << >>
    /\ qr_last = None

IdleClamp ==
    /\ clamp_in = << >>
    /\ clamp_out = << >>

IdleMac == mac = [pc |-> "idle"]

(* Two ciphers fresh from ChaCha20::new with one key and nonce. No call of
   this specification comes near the end of the counter's range, where alone
   the build profiles differ; the profile is the one the tests run under. *)
Init ==
    /\ overflow_checks = TRUE
    /\ \E kn \in KeyNonces : cipher = [i \in Ciphers |-> ChaCha20_new(kn[1], kn[2])]
    /\ start = [i \in Ciphers |-> cipher[i].counter]
    /\ calls = [i \in Ciphers |-> << >>]
    /\ panicked = FALSE
    /\ IdleQR /\ IdleClamp /\ IdleMac

Next ==
    \E i \in Ciphers : \E data \in Pieces \cup Returned(i) : Encrypt(i, data)

Spec == Init /\ [][Next]_vars

(***************************************************************************)
(* The end of the counter's range. The counter is private and leaves 1     *)
(* only through encrypt, one step per 64 bytes: a cipher that has          *)
(* encrypted 2^32 - 3 or 2^32 - 2 blocks holds 0xfffffffe or 0xffffffff.   *)
(* The initial states hold instance 1 fresh or at one of these, under      *)
(* either build profile.                                                   *)
(***************************************************************************)
StartCounters == { AsU32(1), U32(Limb - 1, Limb - 2), U32_MAX }

InitCounter ==
    /\ overflow_checks \in BOOLEAN
    /\ \E kn \in KeyNonces : \E c \in StartCounters :
           cipher = [i \in Ciphers |->
                        IF i = 1 THEN [ChaCha20_new(kn[1], kn[2]) EXCEPT !.counter = c]
                        ELSE ChaCha20_new(kn[1], kn[2])]
    /\ start = [i \in Ciphers |-> cipher[i].counter]
    /\ calls = [i \in Ciphers |-> << >>]
    /\ panicked = FALSE
    /\ IdleQR /\ IdleClamp /\ IdleMac

NextCounter == \E data \in Pieces : Encrypt(1, data)

SpecCounter == InitCounter /\ [][NextCounter]_vars

(***************************************************************************)
(* Properties of the stream cipher                                         *)
(***************************************************************************)
\* ceil(n / d)
CeilDiv(n, d) == IF n % d = 0 THEN n \div d ELSE (n \div d) + 1

\* whether counter + n lies beyond 2^32 - 1, for n < 2^16
Exceeds(counter, n) == counter[2] = Limb - 1 /\ counter[1] + n > Limb - 1

\* the blocks the calls h[1..k] consume: the sum of ceil(len / 64)
RECURSIVE BlocksConsumed(_, _)
BlocksConsumed(h, k) ==
    IF k = 0 THEN 0
    ELSE BlocksConsumed(h, k - 1) + CeilDiv(Len(h[k].data), BLOCK_LENGTH)

\* the counter instance i holds after its k-th call
CounterAfter(i, k) == IF k = Len(calls[i]) THEN cipher[i].counter ELSE calls[i][k + 1].counter

\* the blocks instance i has generated: << call, block >> pairs
BlocksOf(i) ==
    UNION { { <<k, b>> : b \in 1..Len(calls[i][k].generated) } : k \in 1..Len(calls[i]) }

\* C1: a call whose counter + ceil(len/64) lies beyond the 32-bit range fails;
\* it does not return a ciphertext and leaves no wrapped counter behind.
C1_NoSilentWrap ==
    \A i \in Ciphers : \A k \in 1..Len(calls[i]) :
        Exceeds(calls[i][k].counter, CeilDiv(Len(calls[i][k].data), BLOCK_LENGTH))
            => calls[i][k].outcome # "ok"

\* C2: encrypt(m[0..k]) then encrypt(m[k..]) on one fresh instance return,
\* concatenated, what encrypt(m) returns on another fresh instance with the
\* same key and nonce, for every split point k.
C2_SplitEquivalence ==
    \A i \in Ciphers : \A j \in Ciphers \ {i} :
        ( /\ Len(calls[i]) = 2 /\ Len(calls[j]) = 1
          /\ cipher[i].key = cipher[j].key /\ cipher[i].nonce = cipher[j].nonce
          /\ start[i] = start[j]
          /\ calls[j][1].data = calls[i][1].data \o calls[i][2].data )
            => calls[j][1].result = calls[i][1].result \o calls[i][2].result

\* C5: what a fresh cipher returns for m, passed to encrypt of another fresh
\* cipher with the same key and nonce, comes back as m.
C5_RoundTrip ==
    \A i \in Ciphers : \A j \in Ciphers \ {i} :
        ( /\ Len(calls[i]) >= 1 /\ Len(calls[j]) >= 1
          /\ cipher[i].key = cipher[j].key /\ cipher[i].nonce = cipher[j].nonce
          /\ start[i] = start[j]
          /\ calls[j][1].data = calls[i][1].result )
            => calls[j][1].result = calls[i][1].data

\* a round trip of the 65 bytes (one full and one partial chunk) has happened
C5_Witness ==
    \E i \in Ciphers : \E j \in Ciphers \ {i} :
        /\ Len(calls[i]) >= 1 /\ Len(calls[j]) >= 1
        /\ calls[i][1].data = Plain
        /\ calls[i][1].result # Plain
        /\ calls[j][1].data = calls[i][1].result
        /\ calls[j][1].result = Plain

\* C6: while no call overflows, the counter is 1 plus the sum of ceil(len/64)
\* over the calls; chunk i of a call is keyed with the call's counter + i; a
\* call on empty data leaves the counter alone; no two blocks of an instance
\* are keyed with the same counter.
C6_CounterAdvance ==
    \A i \in Ciphers :
        ( /\ start[i] = AsU32(1)
          /\ \A k \in 1..Len(calls[i]) :
                /\ calls[i][k].outcome = "ok"
                /\ ~Exceeds(calls[i][k].counter, CeilDiv(Len(calls[i][k].data), BLOCK_LENGTH)) )
        =>
        /\ cipher[i].counter[2] = 0
        /\ U32ToNat(cipher[i].counter) = 1 + BlocksConsumed(calls[i], Len(calls[i]))
        /\ \A k \in 1..Len(calls[i]) :
              /\ U32ToNat(calls[i][k].counter) = 1 + BlocksConsumed(calls[i], k - 1)
              /\ Len(calls[i][k].generated) = CeilDiv(Len(calls[i][k].data), BLOCK_LENGTH)
              /\ \A b \in 1..Len(calls[i][k].generated) :
                    calls[i][k].generated[b].counter
                        = AsU32(U32ToNat(calls[i][k].counter) + (b - 1))
              /\ calls[i][k].data = << >> => CounterAfter(i, k) = calls[i][k].counter
        /\ \A p \in BlocksOf(i) : \A q \in BlocksOf(i) :
              p # q => calls[i][p[1]].generated[p[2]].counter
                          # calls[i][q[1]].generated[q[2]].counter

\* an instance has taken a call of two chunks and then a call that is not
\* empty, and another has taken a call on empty data
C6_Witness ==
    /\ \E i \in Ciphers :
          /\ Len(calls[i]) = 2
          /\ Len(calls[i][1].generated) = 2
          /\ Len(calls[i][2].generated) >= 1
          /\ cipher[i].counter = AsU32(4)
    /\ \E j \in Ciphers : Len(calls[j]) >= 1 /\ calls[j][1].data = << >>

\* C7: the ciphertext is as long as the data; ceil(len/64) blocks of 64 bytes
\* are generated; byte j of the ciphertext is data[j] XOR keystream[j].
C7_LengthAndXor ==
    \A i \in Ciphers : \A k \in 1..Len(calls[i]) :
        calls[i][k].outcome = "ok" =>
            /\ Len(calls[i][k].result) = Len(calls[i][k].data)
            /\ Len(calls[i][k].generated) = CeilDiv(Len(calls[i][k].data), BLOCK_LENGTH)
            /\ \A b \in 1..Len(calls[i][k].generated) :
                  /\ Len(calls[i][k].generated[b].keystream) = BLOCK_LENGTH
                  /\ \A n \in 1..BLOCK_LENGTH :
                        calls[i][k].keystream[BLOCK_LENGTH * (b - 1) + n]
                            = calls[i][k].generated[b].keystream[n]
            /\ Len(calls[i][k].keystream) = BLOCK_LENGTH * Len(calls[i][k].generated)
            /\ \A j \in 1..Len(calls[i][k].data) : \A bit \in 0..7 :
                  Bit(calls[i][k].result[j], bit)
                      = (Bit(calls[i][k].data[j], bit) + Bit(calls[i][k].keystream[j], bit)) % 2

\* a call on 65 bytes has returned: its final chunk is one byte of a 64-byte block
C7_Witness ==
    \E i \in Ciphers : \E k \in 1..Len(calls[i]) :
        /\ calls[i][k].outcome = "ok"
        /\ Len(calls[i][k].data) = BLOCK_LENGTH + 1
        /\ Len(calls[i][k].keystream) = 2 * BLOCK_LENGTH
        /\ Len(calls[i][k].result) = BLOCK_LENGTH + 1

(***************************************************************************)
(* quarter_round on two ChaCha20Block objects                              *)
(***************************************************************************)
\* the key of simple_quarter_round_test:
\* 11111111 04030201 436f8d9b 67452301 00 .. 00
QR_TEST_KEY ==
    << \H11, \H11, \H11, \H11, \H04, \H03, \H02, \H01,
       \H43, \H6f, \H8d, \H9b, \H67, \H45, \H23, \H01 >>
    \o [i \in 1..16 |-> 0]

\* Pairs of blocks as ChaCha20Block::new builds them. The two of a pair
\* share the key and differ in nonce and counter: words 0..11, 14 and 15
\* agree, words 12 and 13 differ.
QRPairs ==
    { << ChaCha20Block_new(k, TEST_NONCE, AsU32(1)),
         ChaCha20Block_new(k, HELLO_NONCE, AsU32(2)) >> : k \in {QR_TEST_KEY, TEST_KEY} }

\* the index groups block() uses, and the one of simple_quarter_round_test
QRIndices == { QuarterRounds[k] : k \in 1..Len(QuarterRounds) } \cup { <<4, 5, 6, 7>> }

MaxQRSteps == 2

InitQR ==
    /\ \E p \in QRPairs : blockA = p[1] /\ blockB = p[2]
    /\ qr_last = [steps |-> 0, idx |-> << >>, preA |-> << >>, preB |-> << >>]
    /\ IdleChaCha /\ IdleClamp /\ IdleMac

\* blockA.quarter_round(x, y, z, w); blockB.quarter_round(x, y, z, w)
QuarterRound(x, y, z, w) ==
    /\ qr_last.steps < MaxQRSteps
    /\ blockA' = quarter_round(blockA, x, y, z, w)
    /\ blockB' = quarter_round(blockB, x, y, z, w)
    /\ qr_last' = [steps |-> qr_last.steps + 1, idx |-> <<x, y, z, w>>,
                   preA |-> blockA, preB |-> blockB]
    /\ UNCHANGED << chacha_vars, clamp_vars, mac_vars >>

NextQR == \E q \in QRIndices : QuarterRound(q[1], q[2], q[3], q[4])

SpecQR == InitQR /\ [][NextQR]_vars

\* the words the last quarter round was told to work on
Touched == { qr_last.idx[n] : n \in 1..Len(qr_last.idx) }

\* C9: quarter_round(x, y, z, w) leaves every word but x, y, z, w as it was,
\* and two states that agree in those four words before agree in them after.
C9_QuarterRoundFrame ==
    qr_last.steps > 0 =>
        /\ \A i \in (0..15) \ Touched :
              /\ blockA[i + 1] = qr_last.preA[i + 1]
              /\ blockB[i + 1] = qr_last.preB[i + 1]
        /\ (\A i \in Touched : qr_last.preA[i + 1] = qr_last.preB[i + 1])
              => (\A i \in Touched : blockA[i + 1] = blockB[i + 1])

\* a quarter round has run on two states that agree in its four words and
\* differ elsewhere, and has changed those words
C9_Witness ==
    /\ qr_last.steps > 0
    /\ \A i \in Touched : qr_last.preA[i + 1] = qr_last.preB[i + 1]
    /\ qr_last.preA # qr_last.preB
    /\ \A i \in Touched : blockA[i + 1] # qr_last.preA[i + 1]

(***************************************************************************)
(* Poly1305: the clamp                                                     *)
(***************************************************************************)
\* pub type R = u128
R_BITS == 128

\* u128::from_le_bytes
u128_from_le_bytes(b) == [i \in 1..8 |-> b[2 * i - 1] + 256 * b[2 * i]]

\* u128::to_le_bytes
u128_to_le_bytes(v) ==
    [i \in 1..16 |-> IF i % 2 = 1 THEN v[(i + 1) \div 2] % 256 ELSE v[i \div 2] \div 256]

\* 0x0ffffffc0ffffffc0ffffffc0fffffff, least significant limb first
CLAMP_MASK == << \Hffff, \H0fff, \Hfffc, \H0fff, \Hfffc, \H0fff, \Hfffc, \H0fff >>

\* 0x0ffffffc0ffffffc0fffffff0fffffff: the c of r[4] mistyped as f
CLAMP_MASK_TYPO == << \Hffff, \H0fff, \Hffff, \H0fff, \Hfffc, \H0fff, \Hfffc, \H0fff >>

\* u128 & u128
u128_and(a, b) == [i \in 1..8 |-> And16(a[i], b[i])]

poly1305_r_clamp_typo(r) == u128_and(r, CLAMP_MASK_TYPO)

poly1305_r_clamp(r) == u128_and(r, CLAMP_MASK)

\* the u128 with bit k alone set, and the one with bit k alone clear
OneBit(k) == [i \in 1..8 |-> IF i = (k \div 16) + 1 THEN 2^(k % 16) ELSE 0]
AllButBit(k) == [i \in 1..8 |-> (Limb - 1) - OneBit(k)[i]]

U128_ZERO == [i \in 1..8 |-> 0]
U128_MAX == [i \in 1..8 |-> Limb - 1]

ClampInputs ==
    { OneBit(k) : k \in 0..(R_BITS - 1) } \cup { AllButBit(k) : k \in 0..(R_BITS - 1) }
        \cup { U128_ZERO, U128_MAX }

InitClamp ==
    /\ clamp_in \in ClampInputs
    /\ clamp_out = << >>
    /\ IdleChaCha /\ IdleQR /\ IdleMac

\* let clamped = poly1305_r_clamp(r)
Clamp ==
    /\ clamp_out = << >>
    /\ clamp_out' = poly1305_r_clamp(clamp_in)
    /\ UNCHANGED << clamp_in, chacha_vars, qr_vars, mac_vars >>

NextClamp == Clamp

SpecClamp == InitClamp /\ [][NextClamp]_vars

\* bit k of a number given by its little-endian bytes
ByteBit(bytes, k) == Bit(bytes[(k \div 8) + 1], k % 8)

\* the bits the clamp clears: the top four of bytes 3, 7, 11, 15 and the
\* bottom two of bytes 4, 8, 12
ClearedBits ==
    { 8 * o + b : o \in {3, 7, 11, 15}, b \in 4..7 } \cup { 8 * o + b : o \in {4, 8, 12}, b \in 0..1 }

\* C8: in the little-endian bytes of poly1305_r_clamp(r), bytes 3, 7, 11, 15 are
\* below 16 and bytes 4, 8, 12 are divisible by 4; the bits cleared are exactly
\* those, every other bit is the bit of r.
C8_Clamp ==
    clamp_out # << >> =>
        /\ \A o \in {3, 7, 11, 15} : u128_to_le_bytes(clamp_out)[o + 1] < 16
        /\ \A o \in {4, 8, 12} : u128_to_le_bytes(clamp_out)[o + 1] % 4 = 0
        /\ \A k \in 0..(R_BITS - 1) :
              ByteBit(u128_to_le_bytes(clamp_out), k)
                  = IF k \in ClearedBits THEN 0 ELSE ByteBit(u128_to_le_bytes(clamp_in), k)

\* the clamp has been applied to the all-ones input of simple_clamp_test
C8_Witness ==
    /\ clamp_in = U128_MAX
    /\ clamp_out # << >>
    /\ clamp_out # clamp_in

(***************************************************************************)
(* num_bigint::BigUint: base-256 digits, least significant first, no       *)
(* leading zero digit; zero is << >>.                                      *)
(***************************************************************************)
Max(a, b) == IF a >= b THEN a ELSE b

\* digit i of a, 0 beyond its length
Digit(a, i) == IF i <= Len(a) THEN a[i] ELSE 0

\* the largest element of a nonempty set of numbers
SetMax(S) == CHOOSE x \in S : \A y \in S : y <= x

\* drops the zero digits at the most significant end
big_normalize(d) ==
    LET nz == { i \in 1..Len(d) : d[i] # 0 }
    IN  IF nz = {} THEN << >> ELSE SubSeq(d, 1, SetMax(nz))

\* BigUint::from_bytes_le
BigUint_from_bytes_le(bytes) == big_normalize(bytes)

\* BigUint::to_bytes_le: the digits, and [0] for zero
BigUint_to_bytes_le(n) == IF Len(n) = 0 THEN << 0 >> ELSE n

\* u128::to_biguint
u128_to_biguint(v) == big_normalize(u128_to_le_bytes(v))

\* digits lo..hi of a + b with the carry into digit lo: the digits d and the
\* carry c out of digit hi. The lower half of the range, then the upper half.
RECURSIVE big_add_range(_, _, _, _, _)
big_add_range(a, b, lo, hi, carry) ==
    IF lo > hi THEN [d |-> << >>, c |-> carry]
    ELSE IF lo = hi
    THEN [d |-> << (Digit(a, lo) + Digit(b, lo) + carry) % 256 >>,
          c |-> (Digit(a, lo) + Digit(b, lo) + carry) \div 256]
    ELSE LET mid == (lo + hi) \div 2
             low == big_add_range(a, b, lo, mid, carry)
             high == big_add_range(a, b, mid + 1, hi, low.c)
         IN  [d |-> low.d \o high.d, c |-> high.c]

\* BigUint + BigUint
big_add(a, b) ==
    LET sum == big_add_range(a, b, 1, Max(Len(a), Len(b)), 0)
    IN  IF sum.c = 0 THEN sum.d ELSE sum.d \o << sum.c >>

\* digits lo..hi of a - b with the borrow c into digit lo, for a >= b
RECURSIVE big_sub_range(_, _, _, _, _)
big_sub_range(a, b, lo, hi, borrow) ==
    IF lo > hi THEN [d |-> << >>, c |-> borrow]
    ELSE IF lo = hi
    THEN [d |-> << (256 + a[lo] - Digit(b, lo) - borrow) % 256 >>,
          c |-> IF a[lo] - Digit(b, lo) - borrow < 0 THEN 1 ELSE 0]
    ELSE LET mid == (lo + hi) \div 2
             low == big_sub_range(a, b, lo, mid, borrow)
             high == big_sub_range(a, b, mid + 1, hi, low.c)
         IN  [d |-> low.d \o high.d, c |-> high.c]

\* BigUint - BigUint, for a >= b
big_sub(a, b) == big_normalize(big_sub_range(a, b, 1, Len(a), 0).d)

\* BigUint < BigUint: by length, then by the most significant digit that differs
big_less(a, b) ==
    IF Len(a) # Len(b) THEN Len(a) < Len(b)
    ELSE LET diff == { i \in 1..Len(a) : a[i] # b[i] }
         IN  IF diff = {} THEN FALSE ELSE a[SetMax(diff)] < b[SetMax(diff)]

\* digits lo..hi of a * dg for one digit dg, with the carry into digit lo
RECURSIVE big_mul_digit_range(_, _, _, _, _)
big_mul_digit_range(a, dg, lo, hi, carry) ==
    IF lo > hi THEN [d |-> << >>, c |-> carry]
    ELSE IF lo = hi
    THEN [d |-> << (a[lo] * dg + carry) % 256 >>, c |-> (a[lo] * dg + carry) \div 256]
    ELSE LET mid == (lo + hi) \div 2
             low == big_mul_digit_range(a, dg, lo, mid, carry)
             high == big_mul_digit_range(a, dg, mid + 1, hi, low.c)
         IN  [d |-> low.d \o high.d, c |-> high.c]

\* a * dg for one digit dg
big_mul_digit(a, dg) ==
    LET prod == big_mul_digit_range(a, dg, 1, Len(a), 0)
    IN  big_normalize(IF prod.c = 0 THEN prod.d ELSE prod.d \o << prod.c >>)

\* 256^k * a
big_shift_digits(a, k) == IF Len(a) = 0 THEN << >> ELSE [i \in 1..k |-> 0] \o a

\* (digits lo..hi of a, as a number) * b
RECURSIVE big_mul_range(_, _, _, _)
big_mul_range(a, b, lo, hi) ==
    IF lo > hi THEN << >>
    ELSE IF lo = hi THEN big_mul_digit(b, a[lo])
    ELSE LET mid == (lo + hi) \div 2
         IN  big_add(big_mul_range(a, b, lo, mid),
                     big_shift_digits(big_mul_range(a, b, mid + 1, hi), mid + 1 - lo))

\* BigUint * BigUint
big_mul(a, b) == big_mul_range(a, b, 1, Len(a))

\* (2 * rem + bit) % p, for rem < p
big_rem_bit(rem, bit, p) ==
    LET t == big_add(big_add(rem, rem), IF bit = 1 THEN << 1 >> ELSE << >>)
    IN  IF big_less(t, p) THEN t ELSE big_sub(t, p)

\* long division, one bit of the digit d at a time from bit k down. The test
\* on t has one bit done before the next starts.
RECURSIVE big_rem_bits(_, _, _, _)
big_rem_bits(rem, d, k, p) ==
    IF k < 0 THEN rem
    ELSE LET t == big_rem_bit(rem, Bit(d, k), p)
         IN  IF Len(t) >= 0 THEN big_rem_bits(t, d, k - 1, p) ELSE t

\* long division of the digits hi down to lo of a, rem the remainder of the
\* digits above hi: the upper half of the digits, then the lower half
RECURSIVE big_rem_from(_, _, _, _, _)
big_rem_from(a, hi, lo, rem, p) ==
    IF hi < lo THEN rem
    ELSE IF hi = lo THEN big_rem_bits(rem, a[hi], 7, p)
    ELSE LET mid == (hi + lo) \div 2
             t == big_rem_from(a, hi, mid + 1, rem, p)
         IN  IF Len(t) >= 0 THEN big_rem_from(a, mid, lo, t, p) ELSE t

\* BigUint % BigUint
big_rem(a, p) == big_rem_from(a, Len(a), 1, << >>, p)

\* BigUint & BigUint
big_and(a, b) == big_normalize([i \in 1..Min(Len(a), Len(b)) |-> And8(a[i], b[i])])

\* 2.to_biguint().pow(e)
big_pow2(e) == [i \in 1..((e \div 8) + 1) |-> IF i = (e \div 8) + 1 THEN 2^(e % 8) ELSE 0]

(***************************************************************************)
(* poly1305_mac                                                            *)
(***************************************************************************)
\* let p = 2.pow(130).sub(5)
poly_p == big_sub(big_pow2(130), << 5 >>)

\* 0xffffffffffffffffffffffffffffffffu128.to_biguint()
MASK_128 == u128_to_biguint(U128_MAX)

\* data.len().div_ceil(16)
mac_chunks(data) == (Len(data) + 15) \div 16

\* data[((i - 1) * 16)..(i * 16).min(data.len())].to_vec(), then push(0x01)
mac_n_bytes(data, i) ==
    SubSeq(data, (i - 1) * 16 + 1, Min(i * 16, Len(data))) \o << 1 >>

\* a loop body that multiplies before it adds n
mac_step_swapped(r, accumulator, n, p) ==
    big_rem(big_add(big_mul(r, accumulator), n), p)

\* accumulator += n; accumulator = (r * accumulator) % p
mac_step(r, accumulator, n, p) ==
    big_rem(big_mul(r, big_add(accumulator, n)), p)

\* ((accumulator + s) & 0xffff_ffff_ffff_ffff_ffff_ffff_ffff_ffff).to_bytes_le()
mac_code(accumulator, s) ==
    BigUint_to_bytes_le(big_and(big_add(accumulator, s), MASK_128))

\* TEST_KEY of tests/poly.rs
POLY_TEST_KEY ==
    << \H85, \Hd6, \Hbe, \H78, \H57, \H55, \H6d, \H33,
       \H7f, \H44, \H52, \Hfe, \H42, \Hd5, \H06, \Ha8,
       \H01, \H03, \H80, \H8a, \Hfb, \H0d, \Hb2, \Hfd,
       \H4a, \Hbf, \Hf6, \Haf, \H41, \H49, \Hf5, \H1b >>

\* TEST_DATA of tests/poly.rs: "Cryptographic Forum Research Group"
POLY_TEST_DATA ==
    << 67, 114, 121, 112, 116, 111, 103, 114, 97, 112, 104, 105, 99, 32, 70, 111,
       114, 117, 109, 32, 82, 101, 115, 101, 97, 114, 99, 104, 32, 71, 114, 111,
       117, 112 >>

\* the tag simple_poly1305_mac_test expects
POLY_TEST_TAG ==
    << \Ha8, \H06, \H1d, \Hc1, \H30, \H51, \H36, \Hc6,
       \Hc2, \H2b, \H8b, \Haf, \H0c, \H01, \H27, \Ha9 >>

\* Keys: the test's, the test's with the last byte 0 (S below 2^120), all
\* zero, all ones, and 00 01 .. 1f.
MacKeys ==
    { POLY_TEST_KEY,
      [POLY_TEST_KEY EXCEPT ![32] = 0],
      [i \in 1..32 |-> 0],
      [i \in 1..32 |-> 255],
      TEST_KEY }

\* Messages: the prefixes of the test's data of these lengths
MacLengths == {0, 1, 15, 16, 17, 32, 33, 34}

MacData == { SubSeq(POLY_TEST_DATA, 1, n) : n \in MacLengths }

InitMac ==
    /\ mac = [pc |-> "idle"]
    /\ IdleChaCha /\ IdleQR /\ IdleClamp

\* poly1305_mac(key, data), up to the loop: lines 48-60
MacCall(key, data) ==
    /\ mac.pc \in {"idle", "done"}
    /\ mac' = [pc |-> "loop", key |-> key, data |-> data,
               r |-> u128_to_biguint(poly1305_r_clamp(u128_from_le_bytes(SubSeq(key, 1, 16)))),
               s |-> u128_to_biguint(u128_from_le_bytes(SubSeq(key, 17, 32))),
               accumulator |-> << >>,
               i |-> 0, before |-> << >>, tag |-> << >>]
    /\ UNCHANGED << chacha_vars, qr_vars, clamp_vars >>

\* one pass of `for i in 1..=(data.len().div_ceil(16))`: lines 61-68.
\* mac.i is the last i done, mac.before the accumulator that pass started with.
MacChunk ==
    /\ mac.pc = "loop"
    /\ mac.i < mac_chunks(mac.data)
    /\ mac' = [mac EXCEPT
                 !.i = mac.i + 1,
                 !.before = mac.accumulator,
                 !.accumulator =
                     mac_step(mac.r, mac.accumulator,
                              BigUint_from_bytes_le(mac_n_bytes(mac.data, mac.i + 1)),
                              poly_p)]
    /\ UNCHANGED << chacha_vars, qr_vars, clamp_vars >>

\* lines 71-73: code.try_into().unwrap() is Ok for a Vec of 16 bytes and
\* panics for any other length
MacReturn ==
    /\ mac.pc = "loop"
    /\ mac.i = mac_chunks(mac.data)
    /\ \E code \in { mac_code(mac.accumulator, mac.s) } :
           mac' = IF Len(code) = 16
                  THEN [mac EXCEPT !.pc = "done", !.tag = code]
                  ELSE [mac EXCEPT !.pc = "panic"]
    /\ UNCHANGED << chacha_vars, qr_vars, clamp_vars >>

NextMac ==
    \/ \E key \in MacKeys : \E data \in MacData : MacCall(key, data)
    \/ MacChunk
    \/ MacReturn

SpecMac == InitMac /\ [][NextMac]_vars

(***************************************************************************)
(* Properties of poly1305_mac                                              *)
(***************************************************************************)
\* P = 2^130 - 5, digit by digit
P130 == << 251 >> \o [i \in 1..15 |-> 255] \o << 3 >>

\* x mod 2^130 and x div 2^130
Low130(x) ==
    big_normalize([j \in 1..Min(Len(x), 17) |-> IF j = 17 THEN x[j] % 4 ELSE x[j]])
High130(x) ==
    big_normalize([j \in 1..(Len(x) - 16) |-> (x[16 + j] \div 4) + 64 * (Digit(x, 17 + j) % 4)])

\* x mod P by folding: 2^130 = 5 (mod P), so x = Low130(x) + 5 * High130(x) (mod P)
RECURSIVE ReduceP(_)
ReduceP(x) ==
    IF Len(x) <= 16 \/ (Len(x) = 17 /\ x[17] < 4)
    THEN IF big_less(x, P130) THEN x ELSE big_sub(x, P130)
    ELSE ReduceP(big_add(Low130(x), big_mul(<< 5 >>, High130(x))))

\* the i-th 16-byte chunk of the message, the last one possibly shorter
ChunkLen(data, i) == Min(16, Len(data) - 16 * (i - 1))
Chunk(data, i) == [j \in 1..ChunkLen(data, i) |-> data[16 * (i - 1) + j]]

\* N: the chunk read little-endian plus 2^(8 * chunk length)
ChunkN(data, i) ==
    big_add(big_normalize(Chunk(data, i)), big_pow2(8 * ChunkLen(data, i)))

\* the 16 little-endian bytes of x mod 2^128
LowBytes16(x) == [j \in 1..16 |-> Digit(x, j)]

\* C3: poly1305_mac never fails, and returns the 16 little-endian bytes of
\* (Accumulator + S) mod 2^128, also when the top bytes of that value are 0.
C3_MacTotal ==
    /\ mac.pc # "panic"
    /\ mac.pc = "done" =>
          /\ Len(mac.tag) = 16
          /\ mac.tag = LowBytes16(big_add(mac.accumulator, mac.s))

\* C4: on the empty message poly1305_mac returns the last 16 bytes of the key.
C4_EmptyMessageTag ==
    (mac.pc \in {"done", "panic"} /\ Len(mac.data) = 0) =>
        /\ mac.pc = "done"
        /\ mac.tag = SubSeq(mac.key, 17, 32)

\* C10: the accumulator starts at 0; after chunk i it is
\* ((accumulator before + N) * R) mod P, and so below P.
C10_Accumulator ==
    mac.pc # "idle" =>
        /\ mac.i = 0 => mac.accumulator = << >>
        /\ mac.i > 0 =>
              /\ mac.i <= mac_chunks(mac.data)
              /\ mac.accumulator
                    = ReduceP(big_mul(big_add(mac.before, ChunkN(mac.data, mac.i)), mac.r))
              /\ big_less(mac.accumulator, P130)

\* the third chunk, two bytes long, of the 34-byte message has been folded
\* into an accumulator that was not 0
C10_Witness ==
    /\ mac.pc = "loop"
    /\ Len(mac.data) = 34
    /\ mac.i = 3
    /\ Len(mac.before) > 0
    /\ Len(mac.accumulator) > 0

\* simple_poly1305_mac_test of tests/poly.rs
PolyTestVector ==
    (mac.pc = "done" /\ mac.key = POLY_TEST_KEY /\ mac.data = POLY_TEST_DATA)
        => mac.tag = POLY_TEST_TAG

====
